---- MODULE Spec2Model ----
(***************************************************************************)
(* The CrestaStream mock server (src/mock-server/README.md, the server     *)
(* script from line 70 on): an in-memory conversation store, a token       *)
(* registry and the HTTP handlers over them.  Every handler is a pure      *)
(* operator from the state and the request to the new state and the        *)
(* response; one action per route applies it.  The state is what the       *)
(* process keeps between requests: the conversations array, the            *)
(* tokenStore object, and the number of requests served that changed       *)
(* them.                                                                   *)
(*                                                                         *)
(* JavaScript values are tagged records [t |-> type, v |-> payload].       *)
(* Strings are ASCII: the Turkish letters of the seeded records are        *)
(* written without their diacritics.                                       *)
(***************************************************************************)
EXTENDS Integers, Sequences, FiniteSets, TLC

VARIABLES conversations, tokenStore, served

vars == <<conversations, tokenStore, served>>

(***************************************************************************)
(* Bounds of the model.                                                    *)
(***************************************************************************)
\* A request that changes the state is served while served < MaxServed;
\* refused requests and reads are always served.
MaxServed == 2

(***************************************************************************)
(* JavaScript values.                                                      *)
(***************************************************************************)
Undefined == [t |-> "undefined", v |-> 0]

Null == [t |-> "null", v |-> 0]

NaN == [t |-> "nan", v |-> 0]

Str(s) == [t |-> "string", v |-> s]

Num(n) == [t |-> "number", v |-> n]

Arr(items) == [t |-> "array", v |-> items]

Fn(name) == [t |-> "function", v |-> name]

Obj(fields) == [t |-> "object", v |-> fields]

EmptyObject == <<>>

\* o[k] on a plain data object: undefined when the key is absent.
Field(o, k) == IF k \in DOMAIN o THEN o[k] ELSE Undefined

\* ToBoolean: undefined, null, NaN, 0 and "" are falsy.
Truthy(x) ==
  CASE x.t \in {"undefined", "null", "nan"} -> FALSE
    [] x.t = "string" -> x.v # ""
    [] x.t = "number" -> x.v # 0
    [] OTHER -> TRUE

\* a || b
OrElse(a, b) == IF Truthy(a) THEN a ELSE b

\* a === b for the primitives the handlers compare (a request string is
\* never identical to an array or an object).
StrictEq(a, b) ==
  /\ a.t = b.t
  /\ a.t \notin {"nan", "array", "object", "function"}
  /\ a.v = b.v

\* { ...a, ...b }
Spread(a, b) ==
  [k \in DOMAIN a \cup DOMAIN b |-> IF k \in DOMAIN b THEN b[k] ELSE a[k]]

(***************************************************************************)
(* Strings: characters, toLowerCase, includes, replace, parseInt.          *)
(***************************************************************************)
Chars(s) == [i \in 1..Len(s) |-> SubSeq(s, i, i)]

UpperCase == <<"A", "B", "C", "D", "E", "F", "G", "H", "I", "J", "K", "L", "M",
               "N", "O", "P", "Q", "R", "S", "T", "U", "V", "W", "X", "Y", "Z">>

LowerCase == <<"a", "b", "c", "d", "e", "f", "g", "h", "i", "j", "k", "l", "m",
               "n", "o", "p", "q", "r", "s", "t", "u", "v", "w", "x", "y", "z">>

LowerOf ==
  [c \in {UpperCase[i] : i \in 1..Len(UpperCase)} |->
     LowerCase[CHOOSE i \in 1..Len(UpperCase) : UpperCase[i] = c]]

LowerChar(c) == IF c \in DOMAIN LowerOf THEN LowerOf[c] ELSE c

\* String.prototype.toLowerCase, as the sequence of the characters.
ToLowerCase(s) == [i \in 1..Len(s) |-> LowerChar(SubSeq(s, i, i))]

\* String.prototype.includes on character sequences.
Includes(hay, needle) ==
  \E i \in 0..(Len(hay) - Len(needle)) :
    \A j \in 1..Len(needle) : hay[i + j] = needle[j]

\* s.replace(pat, ''): the first occurrence of pat is removed.
RemoveFirst(s, pat) ==
  LET at == {i \in 1..(Len(s) - Len(pat) + 1) : SubSeq(s, i, i + Len(pat) - 1) = pat}
  IN IF at = {} THEN s
     ELSE LET i == CHOOSE i \in at : \A j \in at : i <= j
          IN SubSeq(s, 1, i - 1) \o SubSeq(s, i + Len(pat), Len(s))

Digits == <<"0", "1", "2", "3", "4", "5", "6", "7", "8", "9">>

IsDigit(c) == \E d \in 1..Len(Digits) : Digits[d] = c

DigitValue(c) == (CHOOSE d \in 1..Len(Digits) : Digits[d] = c) - 1

\* The length of the longest prefix of digits of cs from position i.
RECURSIVE DigitRun(_, _)
DigitRun(cs, i) ==
  IF i <= Len(cs) /\ IsDigit(cs[i]) THEN 1 + DigitRun(cs, i + 1) ELSE 0

RECURSIVE DigitsValue(_, _, _)
DigitsValue(cs, i, n) ==
  IF n = 0 THEN 0
  ELSE DigitsValue(cs, i, n - 1) * 10 + DigitValue(cs[i + n - 1])

RECURSIVE SkipSpaces(_, _)
SkipSpaces(cs, i) ==
  IF i <= Len(cs) /\ cs[i] = " " THEN SkipSpaces(cs, i + 1) ELSE i

\* parseInt(x): a string is read as optional blanks, an optional sign and
\* the longest run of digits; no digits, or undefined, is NaN.
ParseInt(x) ==
  IF x.t = "number" THEN x
  ELSE IF x.t # "string" THEN NaN
  ELSE LET cs == Chars(x.v)
           i0 == SkipSpaces(cs, 1)
           neg == i0 <= Len(cs) /\ cs[i0] = "-"
           i1 == IF i0 <= Len(cs) /\ cs[i0] \in {"-", "+"} THEN i0 + 1 ELSE i0
           n == DigitRun(cs, i1)
       IN IF n = 0 THEN NaN
          ELSE Num(IF neg THEN 0 - DigitsValue(cs, i1, n) ELSE DigitsValue(cs, i1, n))

\* a >= b and a <= b on numbers; a comparison with NaN is false.
Geq(a, b) == a.t = "number" /\ b.t = "number" /\ a.v >= b.v

Leq(a, b) == a.t = "number" /\ b.t = "number" /\ a.v <= b.v

(***************************************************************************)
(* The in-memory database.                                                 *)
(***************************************************************************)
Message(role, text) == [role |-> Str(role), text |-> Str(text)]

Conversation(id, title, customerName, agentName, agentId, sentiment, status, aiScore, duration, createdAt, messages) ==
  [id |-> Str(id), title |-> Str(title), customerName |-> Str(customerName),
   agentName |-> Str(agentName), agentId |-> Str(agentId),
   sentiment |-> Str(sentiment), status |-> Str(status),
   aiScore |-> Num(aiScore), duration |-> Num(duration),
   createdAt |-> Str(createdAt), messages |-> Arr(messages)]

SeedConversations ==
  << Conversation("conv-001", "Musteri Sikayeti - Kargo Gecikmesi", "Ahmet Yilmaz",
                  "Ayse Demir", "agent-001", "negative", "resolved", 42, 325,
                  "2024-01-15T09:30:00Z",
                  << Message("customer", "Siparisim 5 gundur gelmedi!"),
                     Message("agent", "Ozur dilerim, hemen kontrol ediyorum.") >>),
     Conversation("conv-002", "Urun Bilgisi Talebi", "Fatma Kaya",
                  "Mehmet Oz", "agent-002", "positive", "completed", 89, 180,
                  "2024-01-15T10:15:00Z",
                  << Message("customer", "Bu urunun garantisi var mi?"),
                     Message("agent", "2 yil garantisi bulunmaktadir.") >>),
     Conversation("conv-003", "Iade Talebi", "Ali Veli",
                  "Ayse Demir", "agent-001", "neutral", "pending", 65, 420,
                  "2024-01-15T11:00:00Z",
                  << Message("customer", "Urunu iade etmek istiyorum."),
                     Message("agent", "Iade talebinizi olusturuyorum.") >>),
     Conversation("conv-004", "Teknik Destek", "Zeynep Aksoy",
                  "Can Yildiz", "agent-003", "positive", "completed", 95, 240,
                  "2024-01-15T14:30:00Z",
                  << Message("customer", "Cihazim acilmiyor."),
                     Message("agent", "Reset tusuna 10 saniye basili tutun.") >>),
     Conversation("conv-005", "Fatura Sorunu", "Murat Celik",
                  "Mehmet Oz", "agent-002", "negative", "escalated", 28, 600,
                  "2024-01-15T16:00:00Z",
                  << Message("customer", "Faturamda yanlis tutar var!"),
                     Message("agent", "Durumu ust birime aktariyorum.") >>) >>

agents ==
  << [id |-> Str("agent-001"), name |-> Str("Ayse Demir"),
      team |-> Str("Musteri Hizmetleri"), status |-> Str("online")],
     [id |-> Str("agent-002"), name |-> Str("Mehmet Oz"),
      team |-> Str("Satis"), status |-> Str("online")],
     [id |-> Str("agent-003"), name |-> Str("Can Yildiz"),
      team |-> Str("Teknik Destek"), status |-> Str("offline")] >>

users ==
  << [email |-> Str("admin@crestastream.com"), password |-> Str("admin123"),
      role |-> Str("admin"), name |-> Str("Admin User")],
     [email |-> Str("agent@crestastream.com"), password |-> Str("agent123"),
      role |-> Str("agent"), name |-> Str("Test Agent")],
     [email |-> Str("manager@crestastream.com"), password |-> Str("manager123"),
      role |-> Str("manager"), name |-> Str("Manager User")] >>

(***************************************************************************)
(* Helper functions.  Math.random is modelled by its successive draws:     *)
(* the n-th draw yields a string no other draw yields, and the request     *)
(* number c owns the draws 2c and 2c+1.  The clock reads the number of     *)
(* the request.                                                            *)
(***************************************************************************)
generateToken(n) == "token-" \o ToString(n)

generateId(n) == "conv-r" \o ToString(n)

\* new Date().toISOString()
IsoNow(n) == "2024-01-16T00:00:0" \o ToString(n) \o "Z"

\* Array.prototype.filter: keep[i] tells whether the callback keeps seq[i].
Filter(seq, keep) ==
  LET kept == SelectSeq([i \in DOMAIN seq |-> i], LAMBDA i : keep[i])
  IN [j \in 1..Len(kept) |-> seq[kept[j]]]

\* Array.prototype.findIndex and find, counted from 1: test[i] tells whether
\* the callback accepts the element at i; 0 when it accepts none.
FindIndex(test) ==
  IF \E i \in DOMAIN test : test[i]
  THEN CHOOSE i \in DOMAIN test : test[i] /\ \A j \in 1..(i - 1) : ~test[j]
  ELSE 0

\* sum + x of the reduce calls: a non-number operand leaves no number.
Plus(a, b) == IF a.t = "number" /\ b.t = "number" THEN Num(a.v + b.v) ELSE NaN

RECURSIVE SumOf(_, _)
SumOf(seq, key) ==
  IF seq = <<>> THEN Num(0) ELSE Plus(Field(Head(seq), key), SumOf(Tail(seq), key))

\* Math.round(a / b * scale) for integers a and b >= 0: 0 / 0 is NaN, and
\* a half rounds up.
RoundDiv(a, b, scale) ==
  IF a.t # "number" \/ b = 0 THEN NaN
  ELSE Num((2 * scale * a.v + b) \div (2 * b))

\* Math.ceil(a / b) for a >= 0 and b # 0.
CeilDiv(a, b) == IF b > 0 THEN (a + b - 1) \div b ELSE 0 - (a \div (0 - b))

\* Fault: metrics whose resolved count leaves the completed records out.
calculateMetricsResolvedOnly(convs) ==
  LET total == Len(convs)
      positive == Len(Filter(convs, [k \in DOMAIN convs |-> StrictEq(Field(convs[k], "sentiment"), Str("positive"))]))
      negative == Len(Filter(convs, [k \in DOMAIN convs |-> StrictEq(Field(convs[k], "sentiment"), Str("negative"))]))
      neutral == Len(Filter(convs, [k \in DOMAIN convs |-> StrictEq(Field(convs[k], "sentiment"), Str("neutral"))]))
      avgScore == RoundDiv(SumOf(convs, "aiScore"), total, 1)
      resolved == Len(Filter(convs, [k \in DOMAIN convs |->
                    StrictEq(Field(convs[k], "status"), Str("resolved"))]))
  IN [totalConversations |-> Num(total),
      positiveCount |-> Num(positive),
      negativeCount |-> Num(negative),
      neutralCount |-> Num(neutral),
      averageAiScore |-> avgScore,
      resolutionRate |-> RoundDiv(Num(resolved), total, 100),
      averageHandleTime |-> RoundDiv(SumOf(convs, "duration"), total, 1)]

calculateMetrics(convs) ==
  LET total == Len(convs)
      positive == Len(Filter(convs, [k \in DOMAIN convs |-> StrictEq(Field(convs[k], "sentiment"), Str("positive"))]))
      negative == Len(Filter(convs, [k \in DOMAIN convs |-> StrictEq(Field(convs[k], "sentiment"), Str("negative"))]))
      neutral == Len(Filter(convs, [k \in DOMAIN convs |-> StrictEq(Field(convs[k], "sentiment"), Str("neutral"))]))
      avgScore == RoundDiv(SumOf(convs, "aiScore"), total, 1)
      resolved == Len(Filter(convs, [k \in DOMAIN convs |->
                    \/ StrictEq(Field(convs[k], "status"), Str("resolved"))
                    \/ StrictEq(Field(convs[k], "status"), Str("completed"))]))
  IN [totalConversations |-> Num(total),
      positiveCount |-> Num(positive),
      negativeCount |-> Num(negative),
      neutralCount |-> Num(neutral),
      averageAiScore |-> avgScore,
      resolutionRate |-> RoundDiv(Num(resolved), total, 100),
      averageHandleTime |-> RoundDiv(SumOf(convs, "duration"), total, 1)]

(***************************************************************************)
(* res.json: JSON.stringify writes NaN as null and leaves out the keys     *)
(* whose value is undefined.                                               *)
(***************************************************************************)
JsonScalar(x) == IF x.t = "nan" THEN Null ELSE x

JsonFlat(o) == [k \in {k \in DOMAIN o : o[k].t # "undefined"} |-> JsonScalar(o[k])]

JsonValue(x) ==
  IF x.t = "array" THEN Arr([i \in 1..Len(x.v) |-> JsonFlat(x.v[i])])
  ELSE JsonScalar(x)

Json(o) == [k \in {k \in DOMAIN o : o[k].t # "undefined"} |-> JsonValue(o[k])]

(***************************************************************************)
(* The token registry: let tokenStore = {}.  A lookup tokenStore[key]      *)
(* finds the object's own keys and, failing that, the properties every     *)
(* plain object inherits from Object.prototype.                            *)
(***************************************************************************)
ObjectPrototype ==
  [k \in {"constructor", "toString", "valueOf", "hasOwnProperty", "__proto__"} |->
     IF k = "__proto__" THEN Obj(EmptyObject)
     ELSE Fn(IF k = "constructor" THEN "Object" ELSE k)]

\* The property name a value is converted to when it is used as a key.
PropertyKey(x) ==
  CASE x.t = "string" -> x.v
    [] x.t = "number" -> ToString(x.v)
    [] OTHER -> x.t

\* tokenStore[key]
Lookup(store, key) ==
  LET k == PropertyKey(key)
  IN IF k \in DOMAIN store THEN store[k]
     ELSE IF k \in DOMAIN ObjectPrototype THEN ObjectPrototype[k]
     ELSE Undefined

\* tokenStore[key] = value
Assign(store, k, value) ==
  [x \in DOMAIN store \cup {k} |-> IF x = k THEN value ELSE store[x]]

\* delete tokenStore[key]: only an own key is removed.
Delete(store, key) ==
  [x \in DOMAIN store \ {PropertyKey(key)} |-> store[x]]

\* user.email, user.name, user.role: of a function only name is defined.
Property(x, k) ==
  CASE x.t = "object" -> Field(x.v, k)
    [] x.t = "function" /\ k = "name" -> Str(x.v)
    [] OTHER -> Undefined

UserProfile(user) ==
  Obj(JsonFlat([email |-> Property(user, "email"), name |-> Property(user, "name"),
                role |-> Property(user, "role")]))

\* req.headers.authorization?.replace('Bearer ', '')
BearerToken(headers) ==
  LET h == Field(headers, "authorization")
  IN IF h.t = "string" THEN Str(RemoveFirst(h.v, "Bearer ")) ELSE Undefined

(***************************************************************************)
(* Auth endpoints.  n is the number of the request.                        *)
(***************************************************************************)
\* Fault: a login that looks the identity up by email alone.
PostLoginByEmail(store, body, n) ==
  LET email == Field(body, "email")
      i == FindIndex([k \in DOMAIN users |-> StrictEq(users[k].email, email)])
  IN IF i # 0
     THEN LET user == Obj(users[i])
              token == generateToken(2 * n)
              refreshToken == "ref-" \o generateToken(2 * n + 1)
          IN [tokenStore |-> Assign(Assign(store, token, user), refreshToken, user),
              status |-> 200,
              body |-> [success |-> TRUE, token |-> Str(token),
                        refreshToken |-> Str(refreshToken), user |-> UserProfile(user)]]
     ELSE [tokenStore |-> store, status |-> 401,
           body |-> [success |-> FALSE, error |-> Str("Invalid credentials")]]

\* Fault: a login that notes a refused attempt in the registry.
PostLoginNotingFailures(store, body, n) ==
  LET email == Field(body, "email")
      password == Field(body, "password")
      i == FindIndex([k \in DOMAIN users |-> StrictEq(users[k].email, email) /\ StrictEq(users[k].password, password)])
  IN IF i # 0
     THEN LET user == Obj(users[i])
              token == generateToken(2 * n)
              refreshToken == "ref-" \o generateToken(2 * n + 1)
          IN [tokenStore |-> Assign(Assign(store, token, user), refreshToken, user),
              status |-> 200,
              body |-> [success |-> TRUE, token |-> Str(token),
                        refreshToken |-> Str(refreshToken), user |-> UserProfile(user)]]
     ELSE [tokenStore |-> Assign(store, "failed:" \o PropertyKey(email), Num(1)), status |-> 401,
           body |-> [success |-> FALSE, error |-> Str("Invalid credentials")]]

PostLogin(store, body, n) ==
  LET email == Field(body, "email")
      password == Field(body, "password")
      i == FindIndex([k \in DOMAIN users |-> StrictEq(users[k].email, email) /\ StrictEq(users[k].password, password)])
  IN IF i # 0
     THEN LET user == Obj(users[i])
              token == generateToken(2 * n)
              refreshToken == "ref-" \o generateToken(2 * n + 1)
          IN [tokenStore |-> Assign(Assign(store, token, user), refreshToken, user),
              status |-> 200,
              body |-> [success |-> TRUE, token |-> Str(token),
                        refreshToken |-> Str(refreshToken), user |-> UserProfile(user)]]
     ELSE [tokenStore |-> store, status |-> 401,
           body |-> [success |-> FALSE, error |-> Str("Invalid credentials")]]

\* Fault: a refresh that leaves the token it verified in the registry.
PostRefreshKeepingOld(store, body, headers, n) ==
  LET incomingRefreshToken == Field(body, "refreshToken")
      tokenToVerify == OrElse(incomingRefreshToken, BearerToken(headers))
      user == Lookup(store, tokenToVerify)
  IN IF Truthy(user)
     THEN LET newToken == generateToken(2 * n)
              newRefreshToken == "ref-" \o generateToken(2 * n + 1)
          IN [tokenStore |-> Assign(Assign(store, newToken, user), newRefreshToken, user),
              status |-> 200,
              body |-> [success |-> TRUE, token |-> Str(newToken),
                        refreshToken |-> Str(newRefreshToken), user |-> UserProfile(user)]]
     ELSE [tokenStore |-> store, status |-> 401,
           body |-> [success |-> FALSE, error |-> Str("Invalid token")]]

\* Fault: a refresh that binds the new tokens to the first user.
PostRefreshAsFirstUser(store, body, headers, n) ==
  LET incomingRefreshToken == Field(body, "refreshToken")
      tokenToVerify == OrElse(incomingRefreshToken, BearerToken(headers))
      user == Lookup(store, tokenToVerify)
  IN IF Truthy(user)
     THEN LET newToken == generateToken(2 * n)
              newRefreshToken == "ref-" \o generateToken(2 * n + 1)
          IN [tokenStore |-> Assign(Assign(Delete(store, tokenToVerify), newToken, Obj(users[1])),
                                    newRefreshToken, Obj(users[1])),
              status |-> 200,
              body |-> [success |-> TRUE, token |-> Str(newToken),
                        refreshToken |-> Str(newRefreshToken), user |-> UserProfile(user)]]
     ELSE [tokenStore |-> store, status |-> 401,
           body |-> [success |-> FALSE, error |-> Str("Invalid token")]]

\* Fault: a refresh that takes the bearer header before the body.
PostRefreshHeaderFirst(store, body, headers, n) ==
  LET incomingRefreshToken == Field(body, "refreshToken")
      tokenToVerify == OrElse(BearerToken(headers), incomingRefreshToken)
      user == Lookup(store, tokenToVerify)
  IN IF Truthy(user)
     THEN LET newToken == generateToken(2 * n)
              newRefreshToken == "ref-" \o generateToken(2 * n + 1)
          IN [tokenStore |-> Assign(Assign(Delete(store, tokenToVerify), newToken, user),
                                    newRefreshToken, user),
              status |-> 200,
              body |-> [success |-> TRUE, token |-> Str(newToken),
                        refreshToken |-> Str(newRefreshToken), user |-> UserProfile(user)]]
     ELSE [tokenStore |-> store, status |-> 401,
           body |-> [success |-> FALSE, error |-> Str("Invalid token")]]

PostRefresh(store, body, headers, n) ==
  LET incomingRefreshToken == Field(body, "refreshToken")
      tokenToVerify == OrElse(incomingRefreshToken, BearerToken(headers))
      user == Lookup(store, tokenToVerify)
  IN IF Truthy(user)
     THEN LET newToken == generateToken(2 * n)
              newRefreshToken == "ref-" \o generateToken(2 * n + 1)
          IN [tokenStore |-> Assign(Assign(Delete(store, tokenToVerify), newToken, user),
                                    newRefreshToken, user),
              status |-> 200,
              body |-> [success |-> TRUE, token |-> Str(newToken),
                        refreshToken |-> Str(newRefreshToken), user |-> UserProfile(user)]]
     ELSE [tokenStore |-> store, status |-> 401,
           body |-> [success |-> FALSE, error |-> Str("Invalid token")]]

\* Fault: a logout that removes every token of the bearer's identity.
PostLogoutEverySession(store, headers) ==
  LET token == BearerToken(headers)
      user == Lookup(store, token)
  IN [tokenStore |-> IF Truthy(token)
                     THEN [k \in {x \in DOMAIN store : store[x] # user} |-> store[k]]
                     ELSE store,
      status |-> 200,
      body |-> [success |-> TRUE]]

PostLogout(store, headers) ==
  LET token == BearerToken(headers)
  IN [tokenStore |-> IF Truthy(token) THEN Delete(store, token) ELSE store,
      status |-> 200,
      body |-> [success |-> TRUE]]

(***************************************************************************)
(* Conversations endpoints.  A TypeError thrown inside a handler leaves    *)
(* the handler at once; the framework answers 500.                         *)
(***************************************************************************)
NotFound == [error |-> Str("Conversation not found")]

ServerError == [error |-> Str("TypeError")]

\* c.title.toLowerCase().includes(search) || c.customerName.toLowerCase().includes(search)
\* throws on a title that is no string, and on a customerName that is no
\* string when the title does not match.
SearchThrows(c, search) ==
  \/ Field(c, "title").t # "string"
  \/ /\ ~Includes(ToLowerCase(Field(c, "title").v), search)
     /\ Field(c, "customerName").t # "string"

SearchMatches(c, search) ==
  \/ Includes(ToLowerCase(Field(c, "title").v), search)
  \/ Includes(ToLowerCase(Field(c, "customerName").v), search)

\* Array.prototype.slice(start, end) on a sequence indexed from 1.
Slice(seq, start, end) ==
  LET len == Len(seq)
      from == IF start < 0 THEN (IF len + start < 0 THEN 0 ELSE len + start)
              ELSE (IF start > len THEN len ELSE start)
      to == IF end < 0 THEN (IF len + end < 0 THEN 0 ELSE len + end)
            ELSE (IF end > len THEN len ELSE end)
  IN SubSeq(seq, from + 1, to)

\* The filters of the listing before the search, in the order applied.
FilterByFields(convs, query) ==
  LET r1 == IF Truthy(Field(query, "sentiment"))
            THEN Filter(convs, [k \in DOMAIN convs |-> StrictEq(Field(convs[k], "sentiment"), Field(query, "sentiment"))])
            ELSE convs
      r2 == IF Truthy(Field(query, "status"))
            THEN Filter(r1, [k \in DOMAIN r1 |-> StrictEq(Field(r1[k], "status"), Field(query, "status"))])
            ELSE r1
  IN IF Truthy(Field(query, "agentId"))
     THEN Filter(r2, [k \in DOMAIN r2 |-> StrictEq(Field(r2[k], "agentId"), Field(query, "agentId"))])
     ELSE r2

\* Whether the search filter throws on the records that reached it.
FilterThrows(convs, query) ==
  /\ Truthy(Field(query, "search"))
  /\ \/ Field(query, "search").t # "string"
     \/ LET r3 == FilterByFields(convs, query)
            search == ToLowerCase(Field(query, "search").v)
        IN \E i \in 1..Len(r3) : SearchThrows(r3[i], search)

\* The records that pass every filter of the query.
FilterAll(convs, query) ==
  LET r3 == FilterByFields(convs, query)
      search == ToLowerCase(Field(query, "search").v)
      r4 == IF Truthy(Field(query, "search"))
            THEN Filter(r3, [k \in DOMAIN r3 |-> SearchMatches(r3[k], search)])
            ELSE r3
      r5 == IF Truthy(Field(query, "minScore"))
            THEN Filter(r4, [k \in DOMAIN r4 |-> Geq(Field(r4[k], "aiScore"), ParseInt(Field(query, "minScore")))])
            ELSE r4
  IN IF Truthy(Field(query, "maxScore"))
     THEN Filter(r5, [k \in DOMAIN r5 |-> Leq(Field(r5[k], "aiScore"), ParseInt(Field(query, "maxScore")))])
     ELSE r5

\* Fault: a listing that filters the store itself in place of a copy.
GetConversationsInPlace(convs, query) ==
  IF FilterThrows(convs, query)
  THEN [conversations |-> convs, status |-> 500, body |-> ServerError]
  ELSE LET result == FilterAll(convs, query)
           page == OrElse(ParseInt(Field(query, "page")), Num(1)).v
           limit == OrElse(ParseInt(Field(query, "limit")), Num(10)).v
           startIndex == (page - 1) * limit
           endIndex == startIndex + limit
           paginatedResult == Slice(result, startIndex, endIndex)
       IN [conversations |-> result, status |-> 200,
           body |-> [data |-> [i \in 1..Len(paginatedResult) |-> Json(paginatedResult[i])],
                     pagination |-> [total |-> Len(result), page |-> page, limit |-> limit,
                                     totalPages |-> CeilDiv(Len(result), limit)]]]

GetConversations(convs, query) ==
  IF FilterThrows(convs, query)
  THEN [conversations |-> convs, status |-> 500, body |-> ServerError]
  ELSE LET result == FilterAll(convs, query)
           page == OrElse(ParseInt(Field(query, "page")), Num(1)).v
           limit == OrElse(ParseInt(Field(query, "limit")), Num(10)).v
           startIndex == (page - 1) * limit
           endIndex == startIndex + limit
           paginatedResult == Slice(result, startIndex, endIndex)
       IN [conversations |-> convs, status |-> 200,
           body |-> [data |-> [i \in 1..Len(paginatedResult) |-> Json(paginatedResult[i])],
                     pagination |-> [total |-> Len(result), page |-> page, limit |-> limit,
                                     totalPages |-> CeilDiv(Len(result), limit)]]]

HasId(c, id) == StrictEq(Field(c, "id"), Str(id))

GetConversation(convs, id) ==
  LET index == FindIndex([k \in DOMAIN convs |-> HasId(convs[k], id)])
  IN IF index # 0
     THEN [conversations |-> convs, status |-> 200, body |-> Json(convs[index])]
     ELSE [conversations |-> convs, status |-> 404, body |-> NotFound]

\* Fault: a new record over which the body is laid, id and createdAt
\* included.
NewConversationFromBody(body, n) ==
  Spread([id |-> Str(generateId(2 * n)),
          title |-> OrElse(Field(body, "title"), Str("New Conversation")),
          customerName |-> OrElse(Field(body, "customerName"), Str("Unknown Customer")),
          agentName |-> OrElse(Field(body, "agentName"), Str("Unassigned")),
          agentId |-> OrElse(Field(body, "agentId"), Null),
          sentiment |-> OrElse(Field(body, "sentiment"), Str("neutral")),
          status |-> OrElse(Field(body, "status"), Str("pending")),
          aiScore |-> OrElse(Field(body, "aiScore"), Num(50)),
          duration |-> OrElse(Field(body, "duration"), Num(0)),
          createdAt |-> Str(IsoNow(n)),
          messages |-> OrElse(Field(body, "messages"), Arr(<<>>))],
         [k \in DOMAIN body \cap {"id", "createdAt"} |-> body[k]])

NewConversation(body, n) ==
  [id |-> Str(generateId(2 * n)),
   title |-> OrElse(Field(body, "title"), Str("New Conversation")),
   customerName |-> OrElse(Field(body, "customerName"), Str("Unknown Customer")),
   agentName |-> OrElse(Field(body, "agentName"), Str("Unassigned")),
   agentId |-> OrElse(Field(body, "agentId"), Null),
   sentiment |-> OrElse(Field(body, "sentiment"), Str("neutral")),
   status |-> OrElse(Field(body, "status"), Str("pending")),
   aiScore |-> OrElse(Field(body, "aiScore"), Num(50)),
   duration |-> OrElse(Field(body, "duration"), Num(0)),
   createdAt |-> Str(IsoNow(n)),
   messages |-> OrElse(Field(body, "messages"), Arr(<<>>))]

\* Fault: a create that puts the new record behind the others.
PostConversationAppending(convs, body, n) ==
  LET newConversation == NewConversation(body, n)
  IN [conversations |-> Append(convs, newConversation),
      status |-> 201,
      body |-> Json(newConversation)]

\* Fault: a create that answers with the request body laid over the record
\* it stored.
PostConversationEchoingBody(convs, body, n) ==
  LET newConversation == NewConversation(body, n)
  IN [conversations |-> <<newConversation>> \o convs,
      status |-> 201,
      body |-> Json(Spread(newConversation, body))]

PostConversation(convs, body, n) ==
  LET newConversation == NewConversation(body, n)
  IN [conversations |-> <<newConversation>> \o convs,
      status |-> 201,
      body |-> Json(newConversation)]

\* Fault: an update that stores a new record when no record has the id.
PutConversationUpserting(convs, id, body) ==
  LET index == FindIndex([k \in DOMAIN convs |-> HasId(convs[k], id)])
      merged == Spread(IF index # 0 THEN convs[index] ELSE [id |-> Str(id)], body)
  IN [conversations |-> IF index # 0 THEN [convs EXCEPT ![index] = merged]
                        ELSE Append(convs, merged),
      status |-> 200, body |-> Json(merged)]

\* Fault: an update that puts the body in the place of the record.
PutConversationReplacing(convs, id, body) ==
  LET index == FindIndex([k \in DOMAIN convs |-> HasId(convs[k], id)])
  IN IF index # 0
     THEN [conversations |-> [convs EXCEPT ![index] = body],
           status |-> 200, body |-> Json(body)]
     ELSE [conversations |-> convs, status |-> 404, body |-> NotFound]

PutConversation(convs, id, body) ==
  LET index == FindIndex([k \in DOMAIN convs |-> HasId(convs[k], id)])
  IN IF index # 0
     THEN LET merged == Spread(convs[index], body)
          IN [conversations |-> [convs EXCEPT ![index] = merged],
              status |-> 200, body |-> Json(merged)]
     ELSE [conversations |-> convs, status |-> 404, body |-> NotFound]

\* Fault: a delete that drops every record with the id.
DeleteConversationEveryMatch(convs, id) ==
  LET index == FindIndex([k \in DOMAIN convs |-> HasId(convs[k], id)])
  IN IF index # 0
     THEN [conversations |-> Filter(convs, [k \in DOMAIN convs |-> ~HasId(convs[k], id)]),
           status |-> 200, body |-> [success |-> TRUE]]
     ELSE [conversations |-> convs, status |-> 404, body |-> NotFound]

DeleteConversation(convs, id) ==
  LET index == FindIndex([k \in DOMAIN convs |-> HasId(convs[k], id)])
  IN IF index # 0
     THEN [conversations |-> SubSeq(convs, 1, index - 1) \o SubSeq(convs, index + 1, Len(convs)),
           status |-> 200, body |-> [success |-> TRUE]]
     ELSE [conversations |-> convs, status |-> 404, body |-> NotFound]

PostMessage(convs, id, body, n) ==
  LET index == FindIndex([k \in DOMAIN convs |-> HasId(convs[k], id)])
  IN IF index # 0
     THEN LET newMessage == [role |-> OrElse(Field(body, "role"), Str("customer")),
                             text |-> Field(body, "text"),
                             timestamp |-> Str(IsoNow(n))]
              messages == Field(convs[index], "messages")
          IN IF messages.t # "array"
             THEN [conversations |-> convs, status |-> 500, body |-> ServerError]
             ELSE LET pushed == [convs[index] EXCEPT !.messages = Arr(Append(messages.v, newMessage))]
                  IN [conversations |-> [convs EXCEPT ![index] = pushed],
                      status |-> 200, body |-> Json(pushed)]
     ELSE [conversations |-> convs, status |-> 404, body |-> NotFound]

(***************************************************************************)
(* Metrics, agents and health endpoints.                                   *)
(***************************************************************************)
GetMetrics(convs, n) ==
  [conversations |-> convs,
   status |-> 200,
   body |-> Json(Spread(calculateMetrics(convs),
                        [trends |-> Obj([conversationsChange |-> Num(12), scoreChange |-> Num(5),
                                         resolutionChange |-> Num(0 - 3)]),
                         lastUpdated |-> Str(IsoNow(n))]))]

GetAgents == [status |-> 200, body |-> agents]

GetHealth(n) ==
  [status |-> 200,
   body |-> [status |-> Str("healthy"), version |-> Str("1.0.0"), uptime |-> Num(n),
             timestamp |-> Str(IsoNow(n)),
             services |-> Obj([database |-> Str("connected"), ai |-> Str("operational"),
                               cache |-> Str("connected")])]]

(***************************************************************************)
(* The requests the clients send.                                          *)
(***************************************************************************)
FullBody ==
  [title |-> Str("Refund Request"), customerName |-> Str("Jane Doe"),
   agentName |-> Str("Ayse Demir"), agentId |-> Str("agent-001"),
   sentiment |-> Str("positive"), status |-> Str("completed"),
   aiScore |-> Num(75), duration |-> Num(120),
   messages |-> Arr(<< Message("customer", "Hello") >>)]

Bodies ==
  { EmptyObject,
    FullBody,
    [aiScore |-> Num(0), duration |-> Num(0), sentiment |-> Str("negative")],
    [title |-> Num(5), messages |-> Str("none")],
    [id |-> Str("conv-001"), createdAt |-> Str("1999-12-31T23:59:59Z"),
     status |-> Str("resolved")] }

MessageBodies ==
  { [text |-> Str("Thanks")],
    [role |-> Str("agent"), text |-> Str("Done")] }

\* The :id of a path: the seeded ids, the ids create can give, an unknown id.
IdParams ==
  {"conv-001", "conv-002", "conv-003", "conv-004", "conv-005", "does-not-exist"}
    \cup {generateId(2 * n) : n \in 0..(MaxServed - 1)}

Credentials ==
  { [email |-> Str("admin@crestastream.com"), password |-> Str("admin123")],
    [email |-> Str("agent@crestastream.com"), password |-> Str("agent123")],
    [email |-> Str("manager@crestastream.com"), password |-> Str("manager123")],
    [email |-> Str("admin@crestastream.com"), password |-> Str("wrongpassword")],
    [email |-> Str("admin@crestastream.com"), password |-> Str("agent123")],
    [email |-> Str("invalid@email.com"), password |-> Str("admin123")],
    [email |-> Str("admin@crestastream.com")],
    EmptyObject }

\* The tokens a client can present: those the server can have issued, a
\* string it never issued, and the name of an inherited property.
IssuableTokens ==
  UNION {{generateToken(2 * n), "ref-" \o generateToken(2 * n + 1)} : n \in 0..(MaxServed - 1)}

PresentedTokens == IssuableTokens \cup {"token-forged", "constructor"}

Bearer(token) == [authorization |-> Str("Bearer " \o token)]

RefreshRequests ==
  {[body |-> [refreshToken |-> Str(t)], headers |-> EmptyObject] : t \in PresentedTokens}
    \cup {[body |-> EmptyObject, headers |-> Bearer(t)] : t \in PresentedTokens}
    \cup {[body |-> [refreshToken |-> Str(t)], headers |-> Bearer(u)] :
            t \in {"token-forged"}, u \in IssuableTokens}
    \cup {[body |-> EmptyObject, headers |-> EmptyObject]}

LogoutHeaders == {Bearer(t) : t \in PresentedTokens} \cup {EmptyObject}

Queries ==
  { EmptyObject,
    [page |-> Str("1"), limit |-> Str("2")],
    [page |-> Str("2"), limit |-> Str("2")],
    [page |-> Str("3"), limit |-> Str("2")],
    [page |-> Str("4"), limit |-> Str("2")],
    [sentiment |-> Str("positive"), status |-> Str("completed")],
    [status |-> Str("completed"), page |-> Str("1"), limit |-> Str("1")],
    [agentId |-> Str("agent-001"), search |-> Str("IADE")],
    [search |-> Str("a"), limit |-> Str("3")],
    [sentiment |-> Str("positive"), search |-> Str("destek")],
    [minScore |-> Str("50"), maxScore |-> Str("90")],
    [minScore |-> Str("0")],
    [maxScore |-> Str("0")],
    [minScore |-> Str("abc")],
    [page |-> Str("x"), limit |-> Str("abc")],
    [page |-> Str("0"), limit |-> Str("0")],
    [page |-> Str("-1"), limit |-> Str("-2")],
    [search |-> Arr(<< Str("a"), Str("b") >>)] }

(***************************************************************************)
(* The state machine: one action per route.  A route that only reads       *)
(* answers and leaves the state as it is.                                  *)
(***************************************************************************)
Statuses == {200, 201, 401, 404, 500}

Init ==
  /\ conversations = SeedConversations
  /\ tokenStore = EmptyObject
  /\ served = 0

\* The number of requests served that changed the state.
Count(changed) == IF changed THEN served + 1 ELSE served

OnLogin ==
  \E body \in Credentials :
    LET r == PostLogin(tokenStore, body, served)
    IN /\ tokenStore' = r.tokenStore
       /\ served' = Count(r.status = 200)
       /\ UNCHANGED conversations

OnRefresh ==
  \E req \in RefreshRequests :
    LET r == PostRefresh(tokenStore, req.body, req.headers, served)
    IN /\ tokenStore' = r.tokenStore
       /\ served' = Count(r.status = 200)
       /\ UNCHANGED conversations

OnLogout ==
  \E headers \in LogoutHeaders :
    LET r == PostLogout(tokenStore, headers)
    IN /\ tokenStore' = r.tokenStore
       /\ served' = Count(r.tokenStore # tokenStore)
       /\ UNCHANGED conversations

List ==
  \E query \in Queries :
    LET r == GetConversations(conversations, query)
    IN /\ r.status \in Statuses
       /\ conversations' = r.conversations
       /\ UNCHANGED <<tokenStore, served>>

Get ==
  \E id \in IdParams :
    LET r == GetConversation(conversations, id)
    IN /\ r.status \in Statuses
       /\ conversations' = r.conversations
       /\ UNCHANGED <<tokenStore, served>>

OnCreate ==
  \E body \in Bodies :
    LET r == PostConversation(conversations, body, served)
    IN /\ conversations' = r.conversations
       /\ served' = Count(TRUE)
       /\ UNCHANGED tokenStore

OnUpdate ==
  \E id \in IdParams, body \in Bodies :
    LET r == PutConversation(conversations, id, body)
    IN /\ conversations' = r.conversations
       /\ served' = Count(r.status = 200)
       /\ UNCHANGED tokenStore

OnRemove ==
  \E id \in IdParams :
    LET r == DeleteConversation(conversations, id)
    IN /\ conversations' = r.conversations
       /\ served' = Count(r.status = 200)
       /\ UNCHANGED tokenStore

OnAddMessage ==
  \E id \in IdParams, body \in MessageBodies :
    LET r == PostMessage(conversations, id, body, served)
    IN /\ conversations' = r.conversations
       /\ served' = Count(r.status = 200)
       /\ UNCHANGED tokenStore

Metrics ==
  LET r == GetMetrics(conversations, served)
  IN /\ r.status \in Statuses
     /\ conversations' = r.conversations
     /\ UNCHANGED <<tokenStore, served>>

Agents ==
  /\ GetAgents.status \in Statuses
  /\ UNCHANGED <<conversations, tokenStore, served>>

Health ==
  /\ GetHealth(served).status \in Statuses
  /\ UNCHANGED <<conversations, tokenStore, served>>

\* A request that changes the state is served while served < MaxServed.
Bounded(A) == A /\ (served' # served => served < MaxServed)

Login == Bounded(OnLogin)

Refresh == Bounded(OnRefresh)

Logout == Bounded(OnLogout)

Create == Bounded(OnCreate)

Update == Bounded(OnUpdate)

Remove == Bounded(OnRemove)

AddMessage == Bounded(OnAddMessage)

Next ==
  \/ Login
  \/ Refresh
  \/ Logout
  \/ List
  \/ Get
  \/ Create
  \/ Update
  \/ Remove
  \/ AddMessage
  \/ Metrics
  \/ Agents
  \/ Health

Spec == Init /\ [][Next]_vars

\* The clients that only create, delete and read: the store can be
\* emptied, since here a deletion is served whatever the count.
NextDrain ==
  \/ Create
  \/ OnRemove
  \/ List
  \/ Get
  \/ Metrics

SpecDrain == Init /\ [][NextDrain]_vars

(***************************************************************************)
(* The properties.  A handler is a function of the state and the request,  *)
(* so a property of a request, or of a request and the one that follows    *)
(* it, is stated of every reachable state and every request.               *)
(***************************************************************************)
FilterKeys == {"sentiment", "status", "agentId", "search", "minScore", "maxScore"}

\* The queries whose every parameter was given once, as a string.
PlainQueries == {q \in Queries : \A k \in DOMAIN q : q[k].t = "string"}

\* A query without one of its parameters.
Without(q, k) == [x \in DOMAIN q \ {k} |-> q[x]]

\* page and limit as the decimal numerals of positive integers.
Paging(page, limit) == [page |-> Str(ToString(page)), limit |-> Str(ToString(limit))]

ValidPagings == {<<1, 1>>, <<1, 2>>, <<2, 2>>, <<3, 2>>, <<2, 3>>, <<1, 10>>, <<4, 2>>}

\* The stored record with this id that a lookup finds, if any.
Present(convs, id) == \E i \in 1..Len(convs) : Field(convs[i], "id") = Str(id)

\* C1: for every store, every filter and every valid (page, limit), the
\* listing answers with at most limit records, echoes page and limit, and
\* reports totalPages = ceil(total / limit), total being the number of
\* records that pass the filter.
C1_PaginationContract ==
  \A q \in PlainQueries, pl \in ValidPagings :
    LET r == GetConversations(conversations, Spread(q, Paging(pl[1], pl[2])))
    IN /\ r.status = 200
       /\ Len(r.body.data) <= pl[2]
       /\ r.body.pagination.page = pl[1]
       /\ r.body.pagination.limit = pl[2]
       /\ r.body.pagination.total = Len(FilterAll(conversations, q))
       /\ r.body.pagination.totalPages * pl[2] >= r.body.pagination.total
       /\ (r.body.pagination.totalPages - 1) * pl[2] < r.body.pagination.total

\* Whether a record satisfies the filter parameter k of the query q.
Satisfies(c, q, k) ==
  CASE k \in {"sentiment", "status", "agentId"} -> Field(c, k) = q[k]
    [] k = "search" ->
         \/ /\ Field(c, "title").t = "string"
            /\ Includes(ToLowerCase(Field(c, "title").v), ToLowerCase(q[k].v))
         \/ /\ Field(c, "customerName").t = "string"
            /\ Includes(ToLowerCase(Field(c, "customerName").v), ToLowerCase(q[k].v))
    [] k = "minScore" -> Geq(Field(c, "aiScore"), ParseInt(q[k]))
    [] k = "maxScore" -> Leq(Field(c, "aiScore"), ParseInt(q[k]))
    [] OTHER -> TRUE

\* C2: the filters are conjunctive: every record the listing returns
\* satisfies every filter of the query, and the query without one of its
\* filters matches at least as many records.
C2_ConjunctiveFilters ==
  \A q \in PlainQueries :
    LET r == GetConversations(conversations, q)
    IN /\ r.status = 200
       /\ \A i \in 1..Len(r.body.data), k \in DOMAIN q \cap FilterKeys :
            Satisfies(r.body.data[i], q, k)
       /\ \A k \in DOMAIN q \cap FilterKeys :
            LET less == GetConversations(conversations, Without(q, k))
            IN /\ less.status = 200
               /\ less.body.pagination.total >= r.body.pagination.total

\* C3: the record that GET /conversations/:id returns right after a POST
\* /conversations, for the id of the POST's response, is the POST's
\* response body, field for field.
C3_CreateGetRoundTrip ==
  \A body \in Bodies :
    LET post == PostConversation(conversations, body, served)
    IN /\ post.status = 201
       /\ post.body.id.t = "string"
       /\ LET get == GetConversation(post.conversations, post.body.id.v)
          IN get.status = 200 /\ get.body = post.body

\* C3's case: a create was served, and the record it made is the one a GET
\* of its id returns.
C3_Witness ==
  /\ served > 0
  /\ Len(conversations) > 0
  /\ conversations[1].id = Str(generateId(2 * (served - 1)))
  /\ GetConversation(conversations, generateId(2 * (served - 1))).body = Json(conversations[1])

\* C4: after a DELETE of an id has succeeded, a second DELETE and a GET of
\* that id answer 404.
C4_DeletedStaysGone ==
  \A id \in IdParams :
    LET del == DeleteConversation(conversations, id)
    IN del.status = 200 =>
         /\ DeleteConversation(del.conversations, id).status = 404
         /\ GetConversation(del.conversations, id).status = 404

\* The token a refresh request presents.
Presented(req) == OrElse(Field(req.body, "refreshToken"), BearerToken(req.headers))

\* C5: after a refresh has succeeded with a token, the token resolves no
\* more, and a second refresh with it is refused with 401 Invalid token.
C5_RotationInvalidatesToken ==
  \A req \in RefreshRequests :
    LET first == PostRefresh(tokenStore, req.body, req.headers, served)
    IN first.status = 200 =>
         /\ ~Truthy(Lookup(first.tokenStore, Presented(req)))
         /\ LET second == PostRefresh(first.tokenStore, req.body, req.headers, served + 1)
            IN /\ second.status = 401
               /\ second.body = [success |-> FALSE, error |-> Str("Invalid token")]

\* The keys added to, and removed from, a registry.
Added(before, after) == DOMAIN after \ DOMAIN before

Removed(before, after) == DOMAIN before \ DOMAIN after

\* The refresh that follows a login at once and presents its refresh token.
RefreshAfter(login) ==
  PostRefresh(login.tokenStore, [refreshToken |-> login.body.refreshToken], EmptyObject, served + 1)

\* C6, as stated: after a login that issued (A, R) and a refresh with R,
\* neither A nor R resolves, and exactly two new tokens were added.
C6_RotationRemovesBoth ==
  \A cred \in Credentials :
    LET login == PostLogin(tokenStore, cred, served)
    IN login.status = 200 =>
         LET refresh == RefreshAfter(login)
         IN /\ refresh.status = 200
            /\ ~Truthy(Lookup(refresh.tokenStore, login.body.token))
            /\ ~Truthy(Lookup(refresh.tokenStore, login.body.refreshToken))
            /\ Cardinality(Added(login.tokenStore, refresh.tokenStore)) = 2

\* C6, amended: after a login that issued (A, R) and a refresh with R, R
\* resolves no more, A still resolves to the identity that logged in, and
\* exactly two new tokens were added.
C6_RotationRemovesUsedOnly ==
  \A cred \in Credentials :
    LET login == PostLogin(tokenStore, cred, served)
    IN login.status = 200 =>
         LET refresh == RefreshAfter(login)
         IN /\ refresh.status = 200
            /\ ~Truthy(Lookup(refresh.tokenStore, login.body.refreshToken))
            /\ Removed(login.tokenStore, refresh.tokenStore) = {login.body.refreshToken.v}
            /\ Lookup(refresh.tokenStore, login.body.token) = Lookup(login.tokenStore, login.body.token)
            /\ UserProfile(Lookup(refresh.tokenStore, login.body.token)) = login.body.user
            /\ Cardinality(Added(login.tokenStore, refresh.tokenStore)) = 2

\* C6's case: the first request was a login, the second a refresh with the
\* refresh token of that login.
C6_Witness ==
  /\ served = 2
  /\ DOMAIN tokenStore = {generateToken(0), generateToken(2), "ref-" \o generateToken(3)}
  /\ Lookup(tokenStore, Str(generateToken(0))) = Obj(users[1])

\* C7: with every conversation deleted, the metrics are totalConversations
\* 0, averageAiScore 0, resolutionRate 0 and a number for averageHandleTime.
C7_EmptyStoreMetrics ==
  Len(conversations) = 0 =>
    LET metrics == GetMetrics(conversations, served)
    IN /\ metrics.status = 200
       /\ metrics.body.totalConversations = Num(0)
       /\ metrics.body.averageAiScore = Num(0)
       /\ metrics.body.resolutionRate = Num(0)
       /\ metrics.body.averageHandleTime.t = "number"

\* C8: a login with the email and password of a seeded identity answers 200
\* with success, a non-empty token, a refresh token and the profile of that
\* identity; every other login answers 401 Invalid credentials.
C8_LoginExactlySeeded ==
  \A cred \in Credentials :
    LET r == PostLogin(tokenStore, cred, served)
        known == {i \in 1..Len(users) : /\ Field(cred, "email") = users[i].email
                                        /\ Field(cred, "password") = users[i].password}
    IN IF known # {}
       THEN /\ r.status = 200
            /\ r.body.success = TRUE
            /\ r.body.token.t = "string" /\ r.body.token.v # ""
            /\ r.body.refreshToken.t = "string" /\ r.body.refreshToken.v # ""
            /\ \E i \in known :
                 /\ r.body.user = Obj([email |-> users[i].email, name |-> users[i].name,
                                       role |-> users[i].role])
                 /\ Lookup(r.tokenStore, r.body.token) = Obj(users[i])
       ELSE /\ r.status = 401
            /\ r.body = [success |-> FALSE, error |-> Str("Invalid credentials")]
            /\ r.tokenStore = tokenStore

\* C8's case: a login was served and its two tokens are bound to the
\* identity, and a login with a wrong password is refused in that state.
C8_Witness ==
  /\ served = 1
  /\ DOMAIN tokenStore = {generateToken(0), "ref-" \o generateToken(1)}
  /\ tokenStore[generateToken(0)] = Obj(users[1])
  /\ PostLogin(tokenStore, [email |-> Str("admin@crestastream.com"),
                            password |-> Str("wrongpassword")], served).status = 401

CreateFields ==
  {"title", "customerName", "agentName", "agentId", "sentiment", "status",
   "aiScore", "duration", "messages"}

CreateDefaults ==
  [title |-> Str("New Conversation"), customerName |-> Str("Unknown Customer"),
   agentName |-> Str("Unassigned"), agentId |-> Null, sentiment |-> Str("neutral"),
   status |-> Str("pending"), aiScore |-> Num(50), duration |-> Num(0),
   messages |-> Arr(<<>>)]

\* C9: a create answers 201, and each of the nine fields of the record holds
\* the value of the body when the body has the field (0 included) and the
\* documented default when it has not.
C9_CreateDefaultsAbsentOnly ==
  \A body \in Bodies :
    LET r == PostConversation(conversations, body, served)
    IN /\ r.status = 201
       /\ \A f \in CreateFields :
            /\ r.body[f] = IF f \in DOMAIN body THEN body[f] ELSE CreateDefaults[f]
            /\ r.conversations[1][f] = r.body[f]

\* C10: for an id that no stored record has, GET, PUT, DELETE and the
\* message append answer 404 Conversation not found and leave the store as
\* it was.
C10_UnknownIdNotFound ==
  \A id \in IdParams :
    ~Present(conversations, id) =>
      LET refused == [conversations |-> conversations, status |-> 404,
                      body |-> [error |-> Str("Conversation not found")]]
      IN /\ GetConversation(conversations, id) = refused
         /\ DeleteConversation(conversations, id) = refused
         /\ \A body \in Bodies : PutConversation(conversations, id, body) = refused
         /\ \A body \in MessageBodies : PostMessage(conversations, id, body, served) = refused

\* C10's case: a seeded record was deleted, and the requests for its id are
\* refused while those for the ids still stored are not.
C10_Witness ==
  /\ served > 0
  /\ ~Present(conversations, "conv-001")
  /\ Present(conversations, "conv-002")
  /\ GetConversation(conversations, "conv-001").status = 404
  /\ GetConversation(conversations, "conv-002").status = 200

\* C11: no two records of the store have the same id.
C11_IdsUnique ==
  \A i, j \in 1..Len(conversations) :
    i # j => Field(conversations[i], "id") # Field(conversations[j], "id")

\* C12: an update leaves the id and the createdAt of the record it updates
\* as they were, whatever the body holds.
C12_UpdateKeepsIdAndCreatedAt ==
  \A id \in IdParams, body \in Bodies :
    LET index == FindIndex([k \in DOMAIN conversations |-> HasId(conversations[k], id)])
        put == PutConversation(conversations, id, body)
    IN index # 0 =>
         /\ put.status = 200
         /\ Field(put.conversations[index], "id") = Field(conversations[index], "id")
         /\ Field(put.conversations[index], "createdAt") = Field(conversations[index], "createdAt")
         /\ put.body.id = Field(conversations[index], "id")
         /\ put.body.createdAt = Field(conversations[index], "createdAt")

\* C13: the id and the createdAt of a created record are the ones the
\* server generated for the request, whatever id and createdAt the body
\* holds.
C13_CreateIgnoresIdAndCreatedAt ==
  \A body \in Bodies :
    LET post == PostConversation(conversations, body, served)
    IN /\ post.status = 201
       /\ post.body.id = Str(generateId(2 * served))
       /\ post.body.createdAt = Str(IsoNow(served))
       /\ post.conversations[1].id = post.body.id
       /\ post.conversations[1].createdAt = post.body.createdAt
       /\ "id" \in DOMAIN body => post.body.id # body.id
       /\ "createdAt" \in DOMAIN body => post.body.createdAt # body.createdAt

\* C13's case: a create whose body held an id and a createdAt was served;
\* the record it made is first, with the generated id and the server's time
\* stamp, and with the status of the body.
C13_Witness ==
  /\ Len(conversations) > 0
  /\ \E n \in 0..(MaxServed - 1) :
       /\ conversations[1].id = Str(generateId(2 * n))
       /\ conversations[1].createdAt = Str(IsoNow(n))
  /\ conversations[1].status = Str("resolved")
  /\ conversations[1].title = Str("New Conversation")

\* C14: a logout answers {success: true}; afterwards its bearer token
\* resolves no more; without a header, or with a token the registry does
\* not hold, the registry is as it was; and every binding other than the
\* token's is as it was.
C14_LogoutRevokesOnlyBearer ==
  \A headers \in LogoutHeaders :
    LET r == PostLogout(tokenStore, headers)
        token == BearerToken(headers)
    IN /\ r.status = 200
       /\ r.body = [success |-> TRUE]
       /\ Truthy(token) => ~Truthy(Lookup(r.tokenStore, token))
       /\ (~Truthy(token) \/ PropertyKey(token) \notin DOMAIN tokenStore) =>
            r.tokenStore = tokenStore
       /\ DOMAIN r.tokenStore \subseteq DOMAIN tokenStore
       /\ \A k \in DOMAIN tokenStore :
            (~Truthy(token) \/ k # PropertyKey(token)) =>
              k \in DOMAIN r.tokenStore /\ r.tokenStore[k] = tokenStore[k]

NumericKeys == {"minScore", "maxScore", "page", "limit"}

\* C15: a listing with a minScore, maxScore, page or limit that does not
\* parse as an integer answers 200 with the response of the same query
\* without that parameter.
C15_MalformedNumericIsAbsent ==
  \A q \in PlainQueries :
    \A k \in DOMAIN q \cap NumericKeys :
      ParseInt(q[k]) = NaN =>
        LET r == GetConversations(conversations, q)
        IN /\ r.status = 200
           /\ r = GetConversations(conversations, Without(q, k))

\* C16: for every page and limit of a query, absent, zero, negative,
\* non-numeric or positive, the page and the limit the listing reports are
\* integers >= 1, 1 and 10 when the parameter is absent, the data has at
\* most limit records and totalPages >= 0.
C16_PageAndLimitPositive ==
  \A q \in PlainQueries :
    LET r == GetConversations(conversations, q)
    IN r.status = 200 =>
         /\ r.body.pagination.page >= 1
         /\ r.body.pagination.limit >= 1
         /\ "page" \notin DOMAIN q => r.body.pagination.page = 1
         /\ "limit" \notin DOMAIN q => r.body.pagination.limit = 10
         /\ Len(r.body.data) <= r.body.pagination.limit
         /\ r.body.pagination.totalPages >= 0

\* C17: no request ends in an exception: every handler answers every
\* request with one of its documented responses.
C17_NoRequestCrashes ==
  /\ \A query \in Queries : GetConversations(conversations, query).status = 200
  /\ \A id \in IdParams : GetConversation(conversations, id).status \in {200, 404}
  /\ \A body \in Bodies : PostConversation(conversations, body, served).status = 201
  /\ \A id \in IdParams, body \in Bodies :
       PutConversation(conversations, id, body).status \in {200, 404}
  /\ \A id \in IdParams : DeleteConversation(conversations, id).status \in {200, 404}
  /\ \A id \in IdParams, body \in MessageBodies :
       PostMessage(conversations, id, body, served).status \in {200, 404}
  /\ GetMetrics(conversations, served).status = 200
  /\ \A body \in Credentials : PostLogin(tokenStore, body, served).status \in {200, 401}
  /\ \A req \in RefreshRequests :
       PostRefresh(tokenStore, req.body, req.headers, served).status \in {200, 401}
  /\ \A headers \in LogoutHeaders : PostLogout(tokenStore, headers).status = 200

\* The number of records whose field is one of the strings.
CountWhere(convs, field, strings) ==
  Cardinality({i \in 1..Len(convs) : \E s \in strings : Field(convs[i], field) = Str(s)})

\* part / whole as a percentage, rounded to the nearest integer, a half up.
Percentage(part, whole) ==
  CHOOSE p \in 0..100 :
    /\ 2 * whole * p <= 200 * part + whole
    /\ 200 * part + whole < 2 * whole * (p + 1)

\* C18: the metrics count the whole store: totalConversations is the
\* number of records, the three sentiment counts are the numbers of records
\* with that sentiment, resolutionRate is the rounded percentage of the
\* records (when there are any) that are resolved or completed; a listing,
\* whatever its filter, changes none of it; a create raises
\* totalConversations by 1 and a successful delete lowers it by 1.
C18_MetricsReflectStore ==
  LET metrics == GetMetrics(conversations, served)
      total == Len(conversations)
  IN /\ metrics.status = 200
     /\ metrics.body.totalConversations = Num(total)
     /\ metrics.body.positiveCount = Num(CountWhere(conversations, "sentiment", {"positive"}))
     /\ metrics.body.negativeCount = Num(CountWhere(conversations, "sentiment", {"negative"}))
     /\ metrics.body.neutralCount = Num(CountWhere(conversations, "sentiment", {"neutral"}))
     /\ total > 0 =>
          metrics.body.resolutionRate =
            Num(Percentage(CountWhere(conversations, "status", {"resolved", "completed"}), total))
     /\ \A query \in Queries :
          GetMetrics(GetConversations(conversations, query).conversations, served) = metrics
     /\ \A body \in Bodies :
          GetMetrics(PostConversation(conversations, body, served).conversations,
                     served + 1).body.totalConversations = Num(total + 1)
     /\ \A id \in IdParams :
          LET del == DeleteConversation(conversations, id)
          IN GetMetrics(del.conversations, served + 1).body.totalConversations =
               Num(IF del.status = 200 THEN total - 1 ELSE total)

\* C18's case: a create and a delete were served; the store holds five
\* records again, the created one first, and the metrics count five.
C18_Witness ==
  /\ served = 2
  /\ Len(conversations) = 5
  /\ conversations[1].id = Str(generateId(0))
  /\ conversations[1].sentiment = Str("negative")
  /\ ~Present(conversations, "conv-002")
  /\ GetMetrics(conversations, served).body.totalConversations = Num(5)
  /\ GetMetrics(conversations, served).body.negativeCount = Num(3)
  /\ GetMetrics(conversations, served).body.positiveCount = Num(1)
  /\ GetMetrics(conversations, served).body.resolutionRate = Num(40)

\* A sequence without its element at i.
RemoveAt(seq, i) == SubSeq(seq, 1, i - 1) \o SubSeq(seq, i + 1, Len(seq))

\* The first n elements of a sequence, all of them when it has fewer.
FirstN(seq, n) == SubSeq(seq, 1, IF Len(seq) < n THEN Len(seq) ELSE n)

C20_RequestsSerialize ==
  /\ \A b1, b2 \in Bodies :
       LET first == PostConversation(conversations, b1, served)
           second == PostConversation(first.conversations, b2, served + 1)
       IN /\ first.status = 201 /\ second.status = 201
          /\ second.conversations = <<second.conversations[1], first.conversations[1]>> \o conversations
          /\ first.body.id # second.body.id
          /\ \A i \in 1..Len(conversations) :
               Field(conversations[i], "id") \notin {first.body.id, second.body.id}
  /\ \A id \in IdParams, body \in Bodies :
       Present(conversations, id) =>
         LET update == PutConversation(conversations, id, body)
             thenDelete == DeleteConversation(update.conversations, id)
             delete == DeleteConversation(conversations, id)
             thenUpdate == PutConversation(delete.conversations, id, body)
         IN /\ update.status = 200 /\ thenDelete.status = 200
            /\ delete.status = 200 /\ thenUpdate.status = 404
            /\ thenDelete.conversations = delete.conversations
            /\ thenUpdate.conversations = delete.conversations
            /\ ~Present(delete.conversations, id)

\* The consecutive failed attempts of the lockout test.
FailedAttempts == 5

\* The login bodies with the email of a seeded identity and not its
\* password.
FailedCredentials ==
  {c \in Credentials :
     /\ \E i \in 1..Len(users) : Field(c, "email") = users[i].email
     /\ ~\E i \in 1..Len(users) : /\ Field(c, "email") = users[i].email
                                  /\ Field(c, "password") = users[i].password}

\* The registry after k consecutive logins with the same body.
RECURSIVE AfterLogins(_, _, _, _)
AfterLogins(store, body, k, n) ==
  IF k = 0 THEN store
  ELSE AfterLogins(PostLogin(store, body, n).tokenStore, body, k - 1, n)

C22_UpdateMergesShallow ==
  \A id \in IdParams, body \in Bodies :
    LET index == FindIndex([k \in DOMAIN conversations |-> HasId(conversations[k], id)])
        put == PutConversation(conversations, id, body)
    IN index # 0 =>
         LET old == conversations[index]
             new == put.conversations[index]
         IN /\ put.status = 200
            /\ Len(put.conversations) = Len(conversations)
            /\ DOMAIN new = DOMAIN old \cup DOMAIN body
            /\ \A k \in DOMAIN body : new[k] = body[k] /\ put.body[k] = body[k]
            /\ \A k \in DOMAIN old \ DOMAIN body : new[k] = old[k]
            /\ \A j \in 1..Len(conversations) : j # index => put.conversations[j] = conversations[j]
            /\ put.body = Json(new)

\* C22's case: the update of conv-003 with a body of three keys was served:
\* the record is third still, with the three values of the body and its own
\* title, and the other records are the seeded ones.
C22_Witness ==
  /\ served = 1
  /\ Len(conversations) = 5
  /\ conversations[3].id = Str("conv-003")
  /\ conversations[3].aiScore = Num(0)
  /\ conversations[3].sentiment = Str("negative")
  /\ conversations[3].title = SeedConversations[3].title
  /\ \A j \in {1, 2, 4, 5} : conversations[j] = SeedConversations[j]

\* C23: a message append to a stored record answers 200 with the updated
\* record; the record's messages are the earlier ones, in their order, and
\* one more at the end, whose role is the role of the body or customer when
\* the body has none; every other field and every other record is as it
\* was.
C23_AppendAddsOneMessage ==
  \A id \in IdParams, body \in MessageBodies :
    LET index == FindIndex([k \in DOMAIN conversations |-> HasId(conversations[k], id)])
        msg == PostMessage(conversations, id, body, served)
    IN index # 0 =>
         LET old == conversations[index]
             new == msg.conversations[index]
         IN /\ msg.status = 200
            /\ new.messages.t = "array"
            /\ Len(new.messages.v) = Len(old.messages.v) + 1
            /\ SubSeq(new.messages.v, 1, Len(old.messages.v)) = old.messages.v
            /\ new.messages.v[Len(new.messages.v)].role =
                 (IF "role" \in DOMAIN body THEN body.role ELSE Str("customer"))
            /\ new.messages.v[Len(new.messages.v)].text = body.text
            /\ DOMAIN new = DOMAIN old
            /\ \A k \in DOMAIN old \ {"messages"} : new[k] = old[k]
            /\ Len(msg.conversations) = Len(conversations)
            /\ \A j \in 1..Len(conversations) : j # index => msg.conversations[j] = conversations[j]
            /\ msg.body = Json(new)

\* The identities of the seeded users.
Identities == {Obj(users[i]) : i \in 1..Len(users)}

\* C24: a refresh with a token that resolves to an identity answers 200
\* with two new tokens, both different from the token presented and from
\* each other, both bound to that identity in the registry, and with the
\* profile of that identity.
C24_RotationKeepsIdentity ==
  \A req \in RefreshRequests :
    LET old == Presented(req)
        user == Lookup(tokenStore, old)
        r == PostRefresh(tokenStore, req.body, req.headers, served)
    IN user \in Identities =>
         /\ r.status = 200
         /\ r.body.success = TRUE
         /\ r.body.token # old /\ r.body.refreshToken # old
         /\ r.body.token # r.body.refreshToken
         /\ r.body.token.v \notin DOMAIN tokenStore
         /\ r.body.refreshToken.v \notin DOMAIN tokenStore
         /\ Lookup(r.tokenStore, r.body.token) = user
         /\ Lookup(r.tokenStore, r.body.refreshToken) = user
         /\ r.body.user = Obj([email |-> user.v.email, name |-> user.v.name, role |-> user.v.role])

\* C24's case: the agent logged in and rotated the tokens: the two tokens
\* of the refresh are bound to the agent.
C24_Witness ==
  /\ served = 2
  /\ {generateToken(2), "ref-" \o generateToken(3)} \subseteq DOMAIN tokenStore
  /\ tokenStore[generateToken(2)] = Obj(users[2])
  /\ tokenStore["ref-" \o generateToken(3)] = Obj(users[2])
  /\ Cardinality(DOMAIN tokenStore) = 3

\* The queries whose numeric parameters all parse as integers.
WellFormedQueries ==
  {q \in PlainQueries : \A k \in DOMAIN q \cap NumericKeys : ParseInt(q[k]) # NaN}

\* The reference filter: a record is matched iff it passes every filter
\* the query has.
Matched(c, q) ==
  /\ "sentiment" \in DOMAIN q => Field(c, "sentiment") = q.sentiment
  /\ "status" \in DOMAIN q => Field(c, "status") = q.status
  /\ "agentId" \in DOMAIN q => Field(c, "agentId") = q.agentId
  /\ "search" \in DOMAIN q =>
       \/ /\ Field(c, "title").t = "string"
          /\ Includes(ToLowerCase(Field(c, "title").v), ToLowerCase(q.search.v))
       \/ /\ Field(c, "customerName").t = "string"
          /\ Includes(ToLowerCase(Field(c, "customerName").v), ToLowerCase(q.search.v))
  /\ "minScore" \in DOMAIN q =>
       Field(c, "aiScore").t = "number" /\ Field(c, "aiScore").v >= ParseInt(q.minScore).v
  /\ "maxScore" \in DOMAIN q =>
       Field(c, "aiScore").t = "number" /\ Field(c, "aiScore").v <= ParseInt(q.maxScore).v

\* The records of the store that the reference filter matches, in the
\* order of the store.
MatchedSeq(convs, q) ==
  LET kept == SelectSeq([i \in DOMAIN convs |-> i], LAMBDA i : Matched(convs[i], q))
  IN [j \in 1..Len(kept) |-> convs[kept[j]]]

\* C25: for every store and every query the listing matches the records
\* that the reference filter matches: its total is their number and, on a
\* page that holds them all, its data is these records.
C25_MatchedSetIsReference ==
  \A q \in WellFormedQueries :
    LET filters == [k \in DOMAIN q \cap FilterKeys |-> q[k]]
        r == GetConversations(conversations, q)
        all == GetConversations(conversations, Spread(filters, Paging(1, 10)))
        expected == MatchedSeq(conversations, filters)
    IN /\ r.status = 200
       /\ r.body.pagination.total = Len(expected)
       /\ all.status = 200
       /\ all.body.data = [i \in 1..Len(expected) |-> Json(expected[i])]

\* C26: a refresh succeeds with the access token and with the refresh
\* token of a live login; a refreshToken in the body is the token that is
\* resolved and removed, whatever the bearer header says; the bearer header
\* is used only when the body has no refreshToken (an empty string is no
\* token).
C26_BodyBeforeHeader ==
  /\ \A cred \in Credentials :
       LET login == PostLogin(tokenStore, cred, served)
       IN login.status = 200 =>
            \A t \in {login.body.token, login.body.refreshToken} :
              /\ PostRefresh(login.tokenStore, [refreshToken |-> t], EmptyObject,
                             served + 1).status = 200
              /\ PostRefresh(login.tokenStore, EmptyObject, Bearer(t.v), served + 1).status = 200
  /\ \A t \in PresentedTokens, u \in PresentedTokens :
       LET both == PostRefresh(tokenStore, [refreshToken |-> Str(t)], Bearer(u), served)
           bodyOnly == PostRefresh(tokenStore, [refreshToken |-> Str(t)], EmptyObject, served)
           headerOnly == PostRefresh(tokenStore, EmptyObject, Bearer(u), served)
       IN /\ both = bodyOnly
          /\ both.status = (IF Truthy(Lookup(tokenStore, Str(t))) THEN 200 ELSE 401)
          /\ both.status = 200 =>
               /\ t \notin DOMAIN both.tokenStore
               /\ Removed(tokenStore, both.tokenStore) \subseteq {t}
               /\ (u # t /\ u \in DOMAIN tokenStore) =>
                    u \in DOMAIN both.tokenStore /\ both.tokenStore[u] = tokenStore[u]
          /\ PostRefresh(tokenStore, [refreshToken |-> Str("")], Bearer(u), served) = headerOnly
          /\ headerOnly.status = (IF Truthy(Lookup(tokenStore, Str(u))) THEN 200 ELSE 401)
          /\ headerOnly.status = 200 =>
               /\ u \notin DOMAIN headerOnly.tokenStore
               /\ Removed(tokenStore, headerOnly.tokenStore) \subseteq {u}

\* C26's case: after a login the access token was presented for rotation:
\* it is gone, the refresh token of the login is still bound, and the two
\* tokens of the refresh are bound.
C26_Witness ==
  /\ served = 2
  /\ DOMAIN tokenStore = {"ref-" \o generateToken(1), generateToken(2), "ref-" \o generateToken(3)}
  /\ tokenStore[generateToken(2)] \in Identities

\* The token is bound in the registry after as it was before.
Keeps(before, after, k) == k \in DOMAIN after /\ after[k] = before[k]

PageLimits == {1, 2, 3, 10}

\* The data of the pages 1..p of a listing, one after the other.
RECURSIVE PagesUpTo(_, _, _, _)
PagesUpTo(convs, filters, limit, p) ==
  IF p = 0 THEN << >>
  ELSE PagesUpTo(convs, filters, limit, p - 1)
         \o GetConversations(convs, Spread(filters, Paging(p, limit))).body.data

\* C28: for every store, every filter and every limit >= 1 the pages
\* 1..totalPages of the listing, one after the other, are the filtered
\* records in the order of the store, none repeated and none left out,
\* and every page after totalPages answers 200 with no data.
C28_PagesPartitionMatched ==
  \A q \in WellFormedQueries, limit \in PageLimits :
    LET filters == [k \in DOMAIN q \cap FilterKeys |-> q[k]]
        first == GetConversations(conversations, Spread(filters, Paging(1, limit)))
        expected == MatchedSeq(conversations, filters)
    IN /\ first.status = 200
       /\ first.body.pagination.totalPages = CeilDiv(Len(expected), limit)
       /\ PagesUpTo(conversations, filters, limit, first.body.pagination.totalPages)
            = [i \in 1..Len(expected) |-> Json(expected[i])]
       /\ \A beyond \in 1..2 :
            LET r == GetConversations(conversations,
                       Spread(filters, Paging(first.body.pagination.totalPages + beyond, limit)))
            IN r.status = 200 /\ r.body.data = << >>

\* The counts of a metrics response: everything but the time of the answer.
Counts(metrics) == Without(metrics, "lastUpdated")

\* A step of one of the read routes.
Read == List \/ Get \/ Metrics \/ Agents \/ Health

\* C29: the read routes change nothing: the listing (with any query), the
\* lookup by id and the metrics leave the store as it is, the agents route
\* answers with the agent table, a read repeated, or made after any other
\* read, answers with the same conversation data and the same counts, and
\* a step of a read route leaves the store and the registry unchanged.
C29_ReadsHaveNoEffect ==
  /\ [](/\ \A query \in Queries :
             LET r == GetConversations(conversations, query)
             IN /\ r.conversations = conversations
                /\ GetConversations(r.conversations, query).status = r.status
                /\ GetConversations(r.conversations, query).body = r.body
                /\ \A id \in IdParams :
                     GetConversation(r.conversations, id).body
                       = GetConversation(conversations, id).body
                /\ Counts(GetMetrics(r.conversations, served + 1).body)
                     = Counts(GetMetrics(conversations, served).body)
        /\ \A id \in IdParams :
             LET r == GetConversation(conversations, id)
             IN /\ r.conversations = conversations
                /\ GetConversation(r.conversations, id).status = r.status
                /\ GetConversation(r.conversations, id).body = r.body
        /\ LET r == GetMetrics(conversations, served)
           IN /\ r.conversations = conversations
              /\ Counts(GetMetrics(r.conversations, served + 1).body) = Counts(r.body)
        /\ GetAgents.body = agents
        /\ GetHealth(served).body.status = GetHealth(served + 1).body.status)
  /\ [][Read => UNCHANGED <<conversations, tokenStore>>]_vars

\* C29's case: a login and a write were served, and the store has a
\* listing that matches some of its records but not all of them.
C29_Witness ==
  /\ served = 2
  /\ tokenStore # EmptyObject
  /\ conversations # SeedConversations
  /\ \E query \in PlainQueries :
       LET r == GetConversations(conversations, query)
       IN /\ r.status = 200
          /\ r.body.pagination.total \in 1..(Len(conversations) - 1)

\* C30: a DELETE that answers 200 shortens the store by exactly one: one
\* record with the id of the request is gone, every other record is still
\* there, each at its place relative to the others, and a step that
\* shortens the store leaves the session registry as it was.
C30_DeleteRemovesExactlyOne ==
  /\ [](\A id \in IdParams :
          LET del == DeleteConversation(conversations, id)
          IN del.status = 200 =>
               /\ Len(del.conversations) = Len(conversations) - 1
               /\ \E i \in 1..Len(conversations) :
                    /\ HasId(conversations[i], id)
                    /\ \A j \in 1..Len(del.conversations) :
                         del.conversations[j] = conversations[IF j < i THEN j ELSE j + 1])
  /\ [][Len(conversations') < Len(conversations) => tokenStore' = tokenStore]_vars

\* C30's case: a login was served and then a delete of a seeded record:
\* four of the five seeded records are left, in their order, the registry
\* holds the session, and a further delete would succeed.
C30_Witness ==
  /\ served = 2
  /\ tokenStore # EmptyObject
  /\ Len(conversations) = 4
  /\ \E i \in 1..Len(SeedConversations) : conversations = RemoveAt(SeedConversations, i)
  /\ \E id \in IdParams : DeleteConversation(conversations, id).status = 200

====
